---- MODULE Spec2Model ----
(***************************************************************************)
(* Model of the command orchestration core of the pilot repository:        *)
(*   RobotCommander (robot/src/robotCommander.py): instruction parsing,    *)
(*     move / pick / drop choreography, held_object bookkeeping and the    *)
(*     fail-fast command sequence;                                         *)
(*   TaskExecutor (robot/src/controls/taskExecuter.py): dispatch of a      *)
(*     remote plan to the registered handlers, one record per command.     *)
(* The scene query (ScenePerception.find_object) and the motion primitive  *)
(* (XArmController.move_to_position / home) are external: each call is one *)
(* step whose outcome is chosen nondeterministically.                      *)
(***************************************************************************)
EXTENDS Integers, Sequences, FiniteSets, TLC

(***************************************************************************)
(* Text.  A Python str is a sequence of one-character strings.             *)
(***************************************************************************)
\* Python's None, distinct from every text (texts hold one-character strings)
None == <<"None">>

UpperCase ==
  <<"A","B","C","D","E","F","G","H","I","J","K","L","M",
    "N","O","P","Q","R","S","T","U","V","W","X","Y","Z">>

LowerCase ==
  <<"a","b","c","d","e","f","g","h","i","j","k","l","m",
    "n","o","p","q","r","s","t","u","v","w","x","y","z">>

Digits == {"0","1","2","3","4","5","6","7","8","9"}

\* the characters the regular expression class \w matches
WordChars ==
  {UpperCase[i] : i \in 1..26} \cup {LowerCase[i] : i \in 1..26} \cup Digits \cup {"_"}

\* str.lower() on one character
LowerChar(c) ==
  IF \E i \in 1..26 : UpperCase[i] = c
    THEN LowerCase[CHOOSE i \in 1..26 : UpperCase[i] = c]
    ELSE c

\* str.lower()
Lower(s) == [i \in 1..Len(s) |-> LowerChar(s[i])]

\* the literal lit occurs in s starting at index i
MatchAt(s, i, lit) ==
  /\ i >= 1
  /\ i + Len(lit) - 1 <= Len(s)
  /\ \A j \in 1..Len(lit) : s[i + j - 1] = lit[j]

\* Python's `lit in s`
Contains(s, lit) == \E i \in 1..(Len(s) + 1) : MatchAt(s, i, lit)

\* the index after the longest run of \w characters of s that starts at i
RECURSIVE WordEnd(_, _)
WordEnd(s, i) ==
  IF i <= Len(s) /\ s[i] \in WordChars THEN WordEnd(s, i + 1) ELSE i

\* the greedy match of (\w+) at i; the empty text when there is none
WordAt(s, i) == SubSeq(s, i, WordEnd(s, i) - 1)

The == <<"t","h","e"," ">>

\* group 1 of  trigger (?:the )?(\w+)  anchored at index i of s, or None.
\* The optional article is tried first and given up when no word follows it.
GroupAt(s, i, trigger) ==
  IF ~ MatchAt(s, i, trigger) THEN None
  ELSE LET j == i + Len(trigger) IN
       IF MatchAt(s, j, The) /\ WordAt(s, j + Len(The)) # <<>>
         THEN WordAt(s, j + Len(The))
       ELSE IF WordAt(s, j) # <<>> THEN WordAt(s, j)
       ELSE None

\* re.search(trigger (?:the )?(\w+), s): group 1 of the leftmost match, or None
Search(s, trigger) ==
  LET hits == {i \in 1..Len(s) : GroupAt(s, i, trigger) # None} IN
  IF hits = {} THEN None
  ELSE GroupAt(s, CHOOSE i \in hits : \A h \in hits : i <= h, trigger)

\* the first pattern of the ordered list that matches decides
RECURSIVE FirstMatch(_, _)
FirstMatch(s, patterns) ==
  IF patterns = <<>> THEN None
  ELSE IF Search(s, Head(patterns)) # None THEN Search(s, Head(patterns))
  ELSE FirstMatch(s, Tail(patterns))

ObjectPatterns ==
  << <<"p","i","c","k"," ","u","p"," ">>,
     <<"m","o","v","e"," ">>,
     <<"d","r","o","p"," ">>,
     <<"p","u","t"," ">>,
     <<"g","r","a","b"," ">> >>

LocationPatternsOnFirst ==
  << <<"o","n"," ">>, <<"i","n"," ">>, <<"t","o"," ">> >>

LocationPatterns ==
  << <<"t","o"," ">>, <<"i","n"," ">>, <<"o","n"," ">> >>

_extract_object_name(command) == FirstMatch(Lower(command), ObjectPatterns)

_extract_target_location(command) == FirstMatch(Lower(command), LocationPatterns)

PickUp == <<"p","i","c","k"," ","u","p">>
Grab == <<"g","r","a","b">>
Drop == <<"d","r","o","p">>
Put == <<"p","u","t">>
Move == <<"m","o","v","e">>

\* the branch of process_command an instruction takes, with the callee's arguments
Classify(text) ==
  LET command == Lower(text)
      object_name == _extract_object_name(command)
      target_location == _extract_target_location(command)
  IN  IF Contains(command, PickUp) \/ Contains(command, Grab)
        THEN [action |-> "pick", object |-> object_name, location |-> None]
      ELSE IF Contains(command, Drop) \/ Contains(command, Put)
        THEN [action |-> "drop", object |-> object_name, location |-> target_location]
      ELSE IF Contains(command, Move)
        THEN [action |-> "move", object |-> object_name, location |-> target_location]
      ELSE [action |-> "unknown", object |-> None, location |-> None]

(***************************************************************************)
(* Inputs.                                                                 *)
(***************************************************************************)
\* longest instruction list handed to execute_command_sequence
MaxCmds == 2

\* longest command list of a remote plan
MaxPlan == 2

book == <<"b","o","o","k">>
shelf == <<"s","h","e","l","f">>

\* the instructions the lists are drawn from
Instructions ==
  { <<"p","i","c","k"," ","u","p"," ","t","h","e"," ","r","e","d"," ","c","u","b","e">>,
    <<"G","r","a","b"," ","t","h","e"," ","C","u","p">>,
    <<"g","r","a","b">>,
    <<"m","o","v","e"," ","b","o","o","k">>,
    <<"m","o","v","e"," ","b","o","o","k"," ","t","o"," ","s","h","e","l","f">>,
    <<"p","u","t"," ","b","o","o","k"," ","o","n"," ","t","a","b","l","e">>,
    <<"d","r","o","p"," ","b","o","o","k">>,
    <<"h","e","l","l","o">> }

\* the labels the operations are called with directly
Labels == {book, shelf}

RECURSIVE ListsUpTo(_, _)
ListsUpTo(S, n) ==
  IF n = 0 THEN {<<>>}
  ELSE LET shorter == ListsUpTo(S, n - 1) IN
       shorter \cup {Append(l, e) : l \in {m \in shorter : Len(m) = n - 1}, e \in S}

CommandLists == ListsUpTo(Instructions, MaxCmds)

\* completion codes of the arm driver: 0 is success
MotionCodes == {0, 9}

\* a motion primitive returns a code or raises
MotionOutcomes ==
  {[raised |-> FALSE, code |-> c] : c \in MotionCodes} \cup {[raised |-> TRUE, code |-> 0]}

\* find_object returns a detection, returns None, or raises (no camera frame)
SceneOutcomes == {"found", "none", "raise"}

(***************************************************************************)
(* RobotCommander.                                                         *)
(***************************************************************************)
default_speed == 100
approach_speed == 50
safe_height == 200
grip_height == 50
drop_height == 100

\* the camera sits 270 mm in +X and 460 mm in +Z of the robot base
camera_x == 270
camera_y == 0
camera_z == 460

\* cosine and sine of 25 and of 30 degrees, in thousandths
cos_z == 906
sin_z == 423
cos_y == 866
sin_y == 500

\* the nearest integer to n / 10^6
Millionth(n) == (n + 500000) \div 1000000

\* H @ point for H = T @ Rz(-25) @ Ry(-30): the rotation about Y, then the one
\* about Z, then the translation
H(point) ==
  LET vx == cos_y * point.x - sin_y * point.z
      vz == sin_y * point.x + cos_y * point.z
  IN  [x |-> Millionth(cos_z * vx + sin_z * 1000 * point.y) + camera_x,
       y |-> Millionth(cos_z * 1000 * point.y - sin_z * vx) + camera_y,
       z |-> Millionth(1000 * vz) + camera_z]

ConvertForward(camera_pos) == H(camera_pos)

\* H_inv @ camera_point for H = T @ Rz(-25) @ Ry(-30): the translation is taken
\* off, then the rotation about Z is undone, then the one about Y.  Positions
\* are in whole millimetres.
_convert_camera_to_robot_frame(camera_pos) ==
  LET dx == camera_pos.x - camera_x
      dy == camera_pos.y - camera_y
      dz == camera_pos.z - camera_z
      ux == cos_z * dx - sin_z * dy
      uy == sin_z * dx + cos_z * dy
  IN  [x |-> Millionth(cos_y * ux + sin_y * 1000 * dz),
       y |-> Millionth(1000 * uy),
       z |-> Millionth(cos_y * 1000 * dz - sin_y * ux)]

\* the scene: where, in the camera frame, the detection for a label lies
Scene(label) ==
  IF label = book THEN [x |-> 100, y |-> 50, z |-> 300]
  ELSE IF label = shelf THEN [x |-> -200, y |-> 120, z |-> 650]
  ELSE [x |-> 0, y |-> 0, z |-> 500]

VARIABLES
  held_object,  \* RobotCommander.held_object
  stack,        \* the chain of awaiting coroutines, the running one last
  ret,          \* the value the coroutine that finished last returned
  done,         \* the call that finished last: its frame, its result, and
                \* Len(log) and held_object when it returned
  log,          \* the scene queries and motion primitives issued since the call began
  tasks,        \* the process_task coroutines scheduled together on one event loop,
                \* each with the worker thread its current command runs in
  calc          \* a pure function being evaluated on its own: its argument and
                \* the values computed from it so far

vars == <<held_object, stack, ret, done, log, tasks, calc>>

\* a coroutine frame; h0 and e0 remember held_object and Len(log) at the call
Frame(fn) ==
  [fn |-> fn, pc |-> "start", commands |-> <<>>, i |-> 0, text |-> <<>>,
   target |-> None, location |-> None, offset |-> 0, position |-> None,
   h0 |-> held_object, e0 |-> Len(log)]

NoFrame ==
  [fn |-> "none", pc |-> "start", commands |-> <<>>, i |-> 0, text |-> <<>>,
   target |-> None, location |-> None, offset |-> 0, position |-> None,
   h0 |-> None, e0 |-> 0]

NoDone == [frame |-> NoFrame, result |-> FALSE, at |-> 0, h1 |-> None]

Top == stack[Len(stack)]

Running(fn, pc) == stack # <<>> /\ Top.fn = fn /\ Top.pc = pc

\* the running coroutine moves to pc
Goto(pc) == [stack EXCEPT ![Len(stack)].pc = pc]

\* the running coroutine awaits a new coroutine and will resume at pc
Await(pc, callee) == Append(Goto(pc), callee)

\* the running coroutine returns v to the one awaiting it
Return(v) ==
  /\ stack' = SubSeq(stack, 1, Len(stack) - 1)
  /\ ret' = v
  /\ done' = [frame |-> Top, result |-> v, at |-> Len(log'), h1 |-> held_object']
  /\ UNCHANGED <<tasks, calc>>

\* the instruction of the enclosing sequence being executed, 0 outside a sequence
Instr ==
  IF stack # <<>> /\ stack[1].fn = "execute_command_sequence" THEN stack[1].i
  ELSE IF Len(stack) >= 2 /\ stack[2].fn = "_execute_vla_commands" THEN stack[2].i
  ELSE 0

Context == [j \in 1..Len(stack) |-> stack[j].fn]

\* ScenePerception.find_object(label) with its outcome
find_object(label, outcome) ==
  [kind |-> "query", phase |-> "find", label |-> label, offset |-> 0, speed |-> 0,
   pos |-> IF outcome = "found" THEN Scene(label) ELSE None,
   axes |-> {}, raised |-> outcome = "raise", code |-> 0, found |-> outcome = "found",
   instr |-> Instr, ctx |-> Context, held |-> held_object]

\* XArmController.move_to_position(...) with its outcome: pos holds the
\* coordinates passed; label and offset tell which object's position, raised by
\* how much, the target was computed from
move_to_position(phase, label, pos, axes, offset, speed, outcome) ==
  [kind |-> "motion", phase |-> phase, label |-> label, offset |-> offset, pos |-> pos,
   speed |-> speed, axes |-> axes, raised |-> outcome.raised, code |-> outcome.code,
   found |-> FALSE, instr |-> Instr, ctx |-> Context, held |-> held_object]

\* Python's `not v` for a label or None
Falsy(v) == v = None \/ v = <<>>

\* the caller is between two calls: nothing runs and no result is pending
Idle == stack = <<>> /\ done = NoDone

\* a caller, between two calls, starts coroutine f
Call(f) ==
  /\ stack' = <<f>>
  /\ UNCHANGED <<held_object, ret, done, log, tasks, calc>>

\* the caller awaits execute_command_sequence(commands)
CallSequence ==
  /\ Idle
  /\ \E commands \in CommandLists :
       Call([Frame("execute_command_sequence") EXCEPT !.commands = commands])

\* the caller awaits one of the operations directly
CallOperation ==
  /\ Idle
  /\ \E a \in Labels, b \in Labels :
       \/ Call([Frame("move_to_object") EXCEPT !.target = a])
       \/ Call([Frame("pick_up_object") EXCEPT !.target = a])
       \/ Call([Frame("drop_object") EXCEPT !.target = a, !.location = a])
       \/ Call([Frame("move_object_to_location") EXCEPT !.target = a, !.location = b])

\* the caller takes the result; the history of the finished call is dropped
CallerResume ==
  /\ stack = <<>>
  /\ done # NoDone
  /\ done' = NoDone
  /\ log' = <<>>
  /\ ret' = FALSE
  /\ UNCHANGED <<held_object, stack, tasks, calc>>

\* the loop of execute_command_sequence from instruction i on
SequenceFrom(i) ==
  IF i > Len(Top.commands)
    THEN Return(TRUE)
    ELSE /\ stack' = Append([stack EXCEPT ![Len(stack)].pc = "await", ![Len(stack)].i = i],
                            [Frame("process_command") EXCEPT !.text = Top.commands[i], !.i = i])
         /\ UNCHANGED <<ret, done, tasks, calc>>

SequenceAbortsNever(success) == FALSE

\* `if not success: return False`
SequenceAborts(success) == ~ success

execute_command_sequence ==
  /\ UNCHANGED <<held_object, log>>
  /\ \/ Running("execute_command_sequence", "start") /\ SequenceFrom(1)
     \/ /\ Running("execute_command_sequence", "await")
        /\ IF SequenceAborts(ret) THEN Return(FALSE) ELSE SequenceFrom(Top.i + 1)

DispatchPlaceAnywhere(parsed) ==
  IF parsed.action = "pick"
    THEN [Frame("pick_up_object") EXCEPT !.target = parsed.object]
  ELSE IF parsed.action = "drop"
    THEN [Frame("drop_object") EXCEPT !.target = parsed.location,
                                      !.location = parsed.location]
  ELSE IF parsed.action = "move" /\ Falsy(parsed.location)
    THEN [Frame("move_to_object") EXCEPT !.target = parsed.object]
  ELSE IF parsed.action = "move"
    THEN [Frame("move_object_to_location") EXCEPT !.target = parsed.object,
                                                  !.location = parsed.location]
  ELSE NoFrame

DispatchMoveAsPick(parsed) ==
  IF parsed.action \in {"pick", "move"}
    THEN [Frame("pick_up_object") EXCEPT !.target = parsed.object]
    ELSE NoFrame

\* the callee process_command awaits for the instruction Top.text, if any
Dispatch(parsed) ==
  IF parsed.action = "pick"
    THEN [Frame("pick_up_object") EXCEPT !.target = parsed.object]
  ELSE IF parsed.action = "drop" /\ ~ Falsy(parsed.location)
    THEN [Frame("drop_object") EXCEPT !.target = parsed.location,
                                      !.location = parsed.location]
  ELSE IF parsed.action = "move" /\ Falsy(parsed.location)
    THEN [Frame("move_to_object") EXCEPT !.target = parsed.object]
  ELSE IF parsed.action = "move"
    THEN [Frame("move_object_to_location") EXCEPT !.target = parsed.object,
                                                  !.location = parsed.location]
  ELSE NoFrame

process_command ==
  /\ UNCHANGED <<held_object, log>>
  /\ \/ /\ Running("process_command", "start")
        /\ LET callee == Dispatch(Classify(Top.text)) IN
           IF callee = NoFrame
             THEN Return(FALSE)
             ELSE stack' = Await("await", callee) /\ UNCHANGED <<ret, done, tasks, calc>>
     \/ Running("process_command", "await") /\ Return(ret)

MotionFailedOnRaise(outcome) == outcome.raised

\* `if result != 0: return False`, an exception ending the operation as well
MotionFailed(outcome) == outcome.raised \/ outcome.code # 0

FoundUnlessRaised(outcome) == outcome # "raise"

\* `if not target_obj: return False` lets only a detection through
Found(outcome) == outcome = "found"

\* move_to_object: the scene query
move_to_object_find ==
  /\ UNCHANGED held_object
  /\ Running("move_to_object", "start")
  /\ \E outcome \in SceneOutcomes :
       /\ log' = Append(log, find_object(Top.target, outcome))
       /\ IF Found(outcome)
            THEN /\ stack' = [stack EXCEPT ![Len(stack)].pc = "approach",
                                           ![Len(stack)].position = Scene(Top.target)]
                 /\ UNCHANGED <<ret, done, tasks, calc>>
            ELSE Return(FALSE)

ApproachAtTarget(robot_pos) == robot_pos

\* approach_pos = (robot_pos[0], robot_pos[1], self.safe_height)
approach_pos(robot_pos) == [x |-> robot_pos.x, y |-> robot_pos.y, z |-> safe_height]

\* the final position: robot_pos raised by height_offset
final_pos(robot_pos, height_offset) ==
  [x |-> robot_pos.x, y |-> robot_pos.y, z |-> robot_pos.z + height_offset]

\* move_to_object: the move above the object
move_to_object_approach ==
  /\ UNCHANGED held_object
  /\ Running("move_to_object", "approach")
  /\ \E outcome \in MotionOutcomes :
       /\ log' = Append(log, move_to_position("approach", Top.target,
                   approach_pos(_convert_camera_to_robot_frame(Top.position)),
                   {"x", "y", "z", "roll", "pitch", "yaw"}, 0, default_speed, outcome))
       /\ IF MotionFailed(outcome)
            THEN Return(FALSE)
            ELSE stack' = Goto("final") /\ UNCHANGED <<ret, done, tasks, calc>>

\* move_to_object: the move to the final position
move_to_object_final ==
  /\ UNCHANGED held_object
  /\ Running("move_to_object", "final")
  /\ \E outcome \in MotionOutcomes :
       /\ log' = Append(log, move_to_position("final", Top.target,
                   final_pos(_convert_camera_to_robot_frame(Top.position), Top.offset),
                   {"x", "y", "z", "roll", "pitch", "yaw"}, Top.offset, approach_speed, outcome))
       /\ Return(~ outcome.raised /\ outcome.code = 0)

PickStoreNothing(label) == None

\* `self.held_object = target_label`
PickStore(label) == label

\* pick_up_object up to the lift: the move to the grip position, then the store

pick_up_object ==
  \/ /\ Running("pick_up_object", "start")
     /\ stack' = Await("await", [Frame("move_to_object") EXCEPT !.target = Top.target,
                                                                !.offset = grip_height])
     /\ UNCHANGED <<held_object, ret, done, log, tasks, calc>>
  \/ /\ Running("pick_up_object", "await")
     /\ UNCHANGED log
     /\ IF ~ ret
          THEN UNCHANGED held_object /\ Return(FALSE)
          ELSE /\ held_object' = PickStore(Top.target)
               /\ stack' = Goto("lift")
               /\ UNCHANGED <<ret, done, tasks, calc>>

\* pick_up_object: the lift to the safe height
pick_up_object_lift ==
  /\ UNCHANGED held_object
  /\ Running("pick_up_object", "lift")
  /\ \E outcome \in MotionOutcomes :
       /\ log' = Append(log, move_to_position("lift", Top.target,
                   [z |-> safe_height], {"z"}, 0, default_speed, outcome))
       /\ Return(~ outcome.raised /\ outcome.code = 0)

NotHoldingNever(held) == FALSE

\* `if not self.held_object`
NotHolding(held) == Falsy(held)

\* drop_object up to the retreat: the guard, the move to the drop position, the clear
drop_object ==
  \/ /\ Running("drop_object", "start")
     /\ UNCHANGED <<held_object, log>>
     /\ IF NotHolding(held_object)
          THEN Return(FALSE)
          ELSE /\ stack' = Await("await", [Frame("move_to_object") EXCEPT
                                             !.target = Top.location, !.offset = drop_height])
               /\ UNCHANGED <<ret, done, tasks, calc>>
  \/ /\ Running("drop_object", "await")
     /\ UNCHANGED log
     /\ IF ~ ret
          THEN UNCHANGED held_object /\ Return(FALSE)
          ELSE /\ held_object' = None
               /\ stack' = Goto("retreat")
               /\ UNCHANGED <<ret, done, tasks, calc>>

\* drop_object: the move back to the safe height
drop_object_retreat ==
  /\ UNCHANGED held_object
  /\ Running("drop_object", "retreat")
  /\ \E outcome \in MotionOutcomes :
       /\ log' = Append(log, move_to_position("retreat", Top.target,
                   [z |-> safe_height], {"z"}, 0, default_speed, outcome))
       /\ Return(~ outcome.raised /\ outcome.code = 0)

PickFailedNever(success) == FALSE

\* `if not await self.pick_up_object(object_name): return False`
PickFailed(success) == ~ success

move_object_to_location ==
  /\ UNCHANGED <<held_object, log>>
  /\ \/ /\ Running("move_object_to_location", "start")
        /\ stack' = Await("await_pick", [Frame("pick_up_object") EXCEPT !.target = Top.target])
        /\ UNCHANGED <<ret, done, tasks, calc>>
     \/ /\ Running("move_object_to_location", "await_pick")
        /\ IF PickFailed(ret)
             THEN Return(FALSE)
             ELSE /\ stack' = Await("await_drop", [Frame("drop_object") EXCEPT
                                      !.target = Top.location, !.location = Top.location])
                  /\ UNCHANGED <<ret, done, tasks, calc>>
     \/ /\ Running("move_object_to_location", "await_drop")
        /\ Return(ret)

(***************************************************************************)
(* TaskExecutor.                                                           *)
(***************************************************************************)
FullParameters == [x |-> 300, y |-> 0, z |-> 150, speed |-> 100]

\* a plan entry that is no JSON object but a JSON string: it has no .get
Malformed == [json |-> "string"]

\* the commands the plans are drawn from
PlanCommands ==
  { [type |-> "move", parameters |-> FullParameters],
    [type |-> "home", parameters |-> [speed |-> 100]],
    [type |-> "pick", parameters |-> FullParameters],
    [type |-> "place", parameters |-> FullParameters],
    [type |-> "fly", parameters |-> FullParameters],
    [type |-> "pick", parameters |-> [x |-> 300, y |-> 0, z |-> 150]],
    [type |-> "place", parameters |-> [x |-> 300, y |-> 0, z |-> 150, speed |-> 100, force |-> 5]],
    Malformed }

Plans == ListsUpTo(PlanCommands, MaxPlan)

\* what the planning service answers: an HTTP status and, with 200, the plan
VlaResponses == {[status |-> 500, commands |-> <<>>]} \cup
                {[status |-> 200, commands |-> plan] : plan \in Plans}

\* TaskExecutor.task_templates: the registered types and the method of each
task_templates ==
  [move  |-> [params |-> {"x", "y", "z", "speed"}, method |-> "move_to_position"],
   home  |-> [params |-> {"speed"}, method |-> "home"],
   pick  |-> [params |-> {"x", "y", "z", "speed"}, method |-> "_execute_pick"],
   place |-> [params |-> {"x", "y", "z", "speed"}, method |-> "_execute_place"]]

\* the keyword parameters each method's signature requires and accepts
Signature ==
  [move_to_position |->
     [required |-> {},
      accepted |-> {"x", "y", "z", "roll", "pitch", "yaw", "speed", "wait", "timeout"}],
   home |-> [required |-> {}, accepted |-> {"speed", "wait"}],
   _execute_pick |-> [required |-> {"x", "y", "z"}, accepted |-> {"x", "y", "z", "speed"}],
   _execute_place |-> [required |-> {"x", "y", "z"}, accepted |-> {"x", "y", "z", "speed"}]]

\* method(**params) binds: no required parameter missing, none unexpected
Binds(method, params) ==
  /\ Signature[method].required \subseteq DOMAIN params
  /\ DOMAIN params \subseteq Signature[method].accepted

\* a frame of the executor; e0 remembers Len(log) at the call
ExecFrame(fn) ==
  [fn |-> fn, pc |-> "start", commands |-> <<>>, i |-> 0, results |-> <<>>,
   params |-> <<>>, e0 |-> Len(log)]

\* what a method hands back: a value, or an exception
Returned(v) == [raised |-> FALSE, value |-> v]
Raised(e) == [raised |-> TRUE, value |-> e]

\* the caller awaits process_task(task_description)
CallTask == Idle /\ Call(ExecFrame("process_task"))

\* the result process_task returns from its `except` clause
TaskError(e) == [status |-> "error", error |-> e, execution_results |-> <<>>]

ResponseAlwaysOk(response) == TRUE

\* `if response.status != 200: raise Exception(...)` lets only a 200 through
ResponseOk(response) == response.status = 200

\* the planning service answers: the plan is returned, or an exception raised
_get_vla_response ==
  /\ UNCHANGED <<held_object, log>>
  /\ Running("_get_vla_response", "start")
  /\ \E response \in VlaResponses :
       IF ResponseOk(response) THEN Return(Returned(response))
                               ELSE Return(Raised("VLA API error"))

TaskResultByRecords(batch) ==
  IF batch.raised
    THEN TaskError(batch.value)
  ELSE IF \E k \in 1..Len(batch.value) : batch.value[k].status = "error"
    THEN [status |-> "error", execution_results |-> batch.value]
  ELSE [status |-> "success", execution_results |-> batch.value]

\* what process_task returns once the batch has returned or raised
TaskResult(batch) ==
  IF batch.raised
    THEN TaskError(batch.value)
    ELSE [status |-> "success", execution_results |-> batch.value]

process_task ==
  /\ UNCHANGED <<held_object, log>>
  /\ \/ /\ Running("process_task", "start")
        /\ stack' = Await("await_response", ExecFrame("_get_vla_response"))
        /\ UNCHANGED <<ret, done, tasks, calc>>
     \/ /\ Running("process_task", "await_response")
        /\ IF ret.raised
             THEN Return(TaskError(ret.value))
             ELSE /\ stack' = Await("await", [ExecFrame("_execute_vla_commands") EXCEPT
                                                  !.commands = ret.value.commands])
                  /\ UNCHANGED <<ret, done, tasks, calc>>
     \/ /\ Running("process_task", "await")
        /\ Return(TaskResult(ret))

ErrorRecord(cmd, e) ==
  [command |-> cmd.type, parameters |-> cmd.parameters, status |-> "error", error |-> e]

\* the record appended when the method returned result
SuccessRecord(cmd, result) ==
  [command |-> cmd.type, parameters |-> cmd.parameters, status |-> "success",
   result |-> result]

RecordedOnSuccess(results, record) ==
  IF record.status = "error" THEN results ELSE Append(results, record)

RecordedInFront(results, record) == <<record>> \o results

\* results.append(record)
Recorded(results, record) == Append(results, record)

LookupDefaultsToMove(cmd_type) ==
  IF cmd_type \in DOMAIN task_templates THEN Returned(task_templates[cmd_type])
                                        ELSE Returned(task_templates.move)

\* the template of a command type; an unregistered type raises ValueError
Lookup(cmd_type) ==
  IF cmd_type \in DOMAIN task_templates THEN Returned(task_templates[cmd_type])
                                        ELSE Raised("ValueError")

\* the body of the loop of _execute_vla_commands for one command: up to the call
\* of its method, or to the record of the exception raised before it
_execute_vla_commands_dispatch ==
  /\ UNCHANGED <<held_object, log>>
  /\ Running("_execute_vla_commands", "start")
  /\ Top.i < Len(Top.commands)
  /\ LET i == Top.i + 1
         cmd == Top.commands[i]
     IN  IF cmd = Malformed
           THEN Return(Raised("AttributeError"))
         ELSE IF Lookup(cmd.type).raised
           THEN /\ stack' = [stack EXCEPT ![Len(stack)].i = i,
                               ![Len(stack)].results = Recorded(@, ErrorRecord(cmd, "ValueError"))]
                /\ UNCHANGED <<ret, done, tasks, calc>>
         ELSE IF ~ Binds(Lookup(cmd.type).value.method, cmd.parameters)
           THEN /\ stack' = [stack EXCEPT ![Len(stack)].i = i,
                               ![Len(stack)].results = Recorded(@, ErrorRecord(cmd, "TypeError"))]
                /\ UNCHANGED <<ret, done, tasks, calc>>
         ELSE /\ stack' = Append([stack EXCEPT ![Len(stack)].i = i, ![Len(stack)].pc = "await"],
                                 [ExecFrame(Lookup(cmd.type).value.method) EXCEPT
                                    !.params = cmd.parameters])
              /\ UNCHANGED <<ret, done, tasks, calc>>

\* the method returned or raised: the record of the command
_execute_vla_commands_record ==
  /\ Running("_execute_vla_commands", "await")
  /\ LET cmd == Top.commands[Top.i]
         record == IF ret.raised THEN ErrorRecord(cmd, ret.value)
                                 ELSE SuccessRecord(cmd, ret.value)
     IN  stack' = [stack EXCEPT ![Len(stack)].pc = "start",
                                ![Len(stack)].results = Recorded(@, record)]
  /\ UNCHANGED <<held_object, ret, done, log, tasks, calc>>

\* after the last command
_execute_vla_commands_return ==
  /\ UNCHANGED <<held_object, log>>
  /\ Running("_execute_vla_commands", "start")
  /\ Top.i >= Len(Top.commands)
  /\ Return(Returned(Top.results))

\* the speed a method passes on, 0 standing for None
Speed(params) == IF "speed" \in DOMAIN params THEN params.speed ELSE 0

\* the "move" and "home" commands call the controller directly
robot_method ==
  /\ UNCHANGED held_object
  /\ \/ Running("move_to_position", "start")
     \/ Running("home", "start")
  /\ \E outcome \in MotionOutcomes :
       /\ log' = Append(log, move_to_position(Top.fn, None,
                     [k \in DOMAIN Top.params \cap {"x", "y", "z"} |-> Top.params[k]],
                     DOMAIN Top.params \ {"speed"},
                                              0, Speed(Top.params), outcome))
       /\ IF outcome.raised THEN Return(Raised("Exception"))
                            ELSE Return(Returned(outcome.code))

\* the position of a choreography raised by dz
Raise(params, dz) == [x |-> params.x, y |-> params.y, z |-> params.z + dz]

\* what a choreography does with the code of a phase that is not its last
Propagate(code) == Returned(code)

\* _execute_pick and _execute_place: above the position, down to it, up again
Choreography(fn) ==
  /\ UNCHANGED held_object
  /\ \/ /\ Running(fn, "start")
        /\ \E outcome \in MotionOutcomes :
             /\ log' = Append(log, move_to_position("above", None, Raise(Top.params, 50),
                                                    {"x", "y", "z"}, 50,
                                                    Speed(Top.params), outcome))
             /\ IF outcome.raised THEN Return(Raised("Exception"))
                ELSE IF outcome.code # 0 THEN Return(Propagate(outcome.code))
                ELSE IF "speed" \notin DOMAIN Top.params THEN Return(Raised("TypeError"))
                ELSE stack' = Goto("down") /\ UNCHANGED <<ret, done, tasks, calc>>
     \/ /\ Running(fn, "down")
        /\ \E outcome \in MotionOutcomes :
             /\ log' = Append(log, move_to_position("down", None, Raise(Top.params, 0),
                                                    {"x", "y", "z"}, 0,
                                                    Speed(Top.params) \div 2, outcome))
             /\ IF outcome.raised THEN Return(Raised("Exception"))
                ELSE IF outcome.code # 0 THEN Return(Propagate(outcome.code))
                ELSE stack' = Goto("up") /\ UNCHANGED <<ret, done, tasks, calc>>
     \/ /\ Running(fn, "up")
        /\ \E outcome \in MotionOutcomes :
             /\ log' = Append(log, move_to_position("up", None, Raise(Top.params, 50),
                                                    {"x", "y", "z"}, 50,
                                                    Speed(Top.params) \div 2, outcome))
             /\ IF outcome.raised THEN Return(Raised("Exception"))
                                  ELSE Return(Returned(outcome.code))

_execute_pick == Choreography("_execute_pick")

_execute_place == Choreography("_execute_place")

(***************************************************************************)
(* Several process_task coroutines on one event loop, sharing one          *)
(* XArmController.  A coroutine runs without interruption from one await to *)
(* the next; the method of a command runs in a worker thread of the loop's  *)
(* default executor (asyncio.to_thread), where each motion primitive is a   *)
(* blocking call: in flight from its call to its return.                    *)
(***************************************************************************)
\* the coroutines scheduled together
Tasks == {"a", "b"}

\* the commands their plans are drawn from: a choreography of three motions
\* and a command of an unregistered type
TaskCommands ==
  { [type |-> "pick", parameters |-> FullParameters],
    [type |-> "fly", parameters |-> FullParameters] }

TaskPlans == ListsUpTo(TaskCommands, MaxPlan)

\* no work item: nothing was handed to the executor
NoWorker ==
  [state |-> "none", method |-> "none", params |-> <<>>, phase |-> 0,
   inflight |-> FALSE, result |-> Returned(0)]

\* the work item asyncio.to_thread hands to the executor for method(**params)
Queued(method, params) ==
  [state |-> "queued", method |-> method, params |-> params, phase |-> 0,
   inflight |-> FALSE, result |-> Returned(0)]

\* a task no coroutine was created for yet
NewTask ==
  [pc |-> "new", commands |-> <<>>, i |-> 0, results |-> <<>>,
   result |-> "pending", worker |-> NoWorker]

\* the task ends: its caller gets result
Ended(task, result) == [task EXCEPT !.pc = "ended", !.result = result]

\* _execute_vla_commands from command task.i + 1 up to its next await, or, when
\* no command is left, up to the return of process_task
RECURSIVE Loop(_)
Loop(task) ==
  IF task.i >= Len(task.commands)
    THEN Ended(task, [status |-> "success", execution_results |-> task.results])
  ELSE LET i == task.i + 1
           cmd == task.commands[i]
       IN  IF cmd = Malformed
             THEN Ended(task, TaskError("AttributeError"))
           ELSE IF Lookup(cmd.type).raised
             THEN Loop([task EXCEPT !.i = i,
                                    !.results = Recorded(@, ErrorRecord(cmd, "ValueError"))])
           ELSE [task EXCEPT !.i = i, !.pc = "await",
                             !.worker = Queued(Lookup(cmd.type).value.method, cmd.parameters)]

\* asyncio.create_task(process_task(...)): the coroutine runs up to the await of
\* the planning service's answer
TaskStart(t) ==
  /\ tasks[t].pc = "new"
  /\ tasks' = [tasks EXCEPT ![t].pc = "request"]
  /\ UNCHANGED <<held_object, stack, ret, done, log, calc>>

\* the answer arrives: an error status ends the task, a plan is executed up to
\* the await of its first method
TaskResponse(t) ==
  /\ tasks[t].pc = "request"
  /\ \E status \in {200, 500} : \E plan \in TaskPlans :
       tasks' = [tasks EXCEPT ![t] =
                   IF status # 200
                     THEN Ended(@, TaskError("VLA API error"))
                     ELSE Loop([@ EXCEPT !.commands = plan])]
  /\ UNCHANGED <<held_object, stack, ret, done, log, calc>>

\* a worker thread takes the work item and calls method(**params)
WorkerStart(t) ==
  /\ tasks[t].worker.state = "queued"
  /\ tasks' = [tasks EXCEPT ![t].worker =
                 IF Binds(@.method, @.params)
                   THEN [@ EXCEPT !.state = "running"]
                   ELSE [@ EXCEPT !.state = "finished", !.result = Raised("TypeError")]]
  /\ UNCHANGED <<held_object, stack, ret, done, log, calc>>

\* the motion primitives a method calls when none fails
Phases(method) == IF method \in {"_execute_pick", "_execute_place"} THEN 3 ELSE 1

\* the method calls its next motion primitive
MotionCall(t) ==
  /\ tasks[t].worker.state = "running"
  /\ ~ tasks[t].worker.inflight
  /\ tasks' = [tasks EXCEPT ![t].worker.inflight = TRUE, ![t].worker.phase = @ + 1]
  /\ UNCHANGED <<held_object, stack, ret, done, log, calc>>

\* the motion primitive returns or raises: the method goes on or ends
MotionReturn(t) ==
  /\ tasks[t].worker.inflight
  /\ \E outcome \in MotionOutcomes :
       LET w == tasks[t].worker
           finished(r) == [w EXCEPT !.state = "finished", !.inflight = FALSE, !.result = r]
       IN  tasks' = [tasks EXCEPT ![t].worker =
                       IF outcome.raised THEN finished(Raised("Exception"))
                       ELSE IF w.phase = Phases(w.method) THEN finished(Returned(outcome.code))
                       ELSE IF outcome.code # 0 THEN finished(Propagate(outcome.code))
                       ELSE IF "speed" \notin DOMAIN w.params THEN finished(Raised("TypeError"))
                       ELSE [w EXCEPT !.inflight = FALSE]]
  /\ UNCHANGED <<held_object, stack, ret, done, log, calc>>

\* the method is over: the coroutine resumes at its await, appends the record
\* and runs on to its next await or to its end
TaskResume(t) ==
  /\ tasks[t].pc = "await"
  /\ tasks[t].worker.state = "finished"
  /\ LET task == tasks[t]
         cmd == task.commands[task.i]
         record == IF task.worker.result.raised
                     THEN ErrorRecord(cmd, task.worker.result.value)
                     ELSE SuccessRecord(cmd, task.worker.result.value)
     IN  tasks' = [tasks EXCEPT ![t] =
                     Loop([task EXCEPT !.results = Recorded(@, record),
                                       !.worker = NoWorker])]
  /\ UNCHANGED <<held_object, stack, ret, done, log, calc>>

\* what Task.cancel() leaves of the work item: one no thread has taken yet is
\* cancelled with the future, one that runs or is over stays as it is
CancelWorker(worker) == IF worker.state = "queued" THEN NoWorker ELSE worker

\* the caller cancels the task: CancelledError is thrown into the coroutine at
\* the await it is suspended in; no `except Exception` catches it, so the task
\* ends cancelled
TaskCancel(t) ==
  /\ tasks[t].pc \in {"request", "await"}
  /\ tasks' = [tasks EXCEPT ![t] =
                 Ended([@ EXCEPT !.worker = CancelWorker(@)], "cancelled")]
  /\ UNCHANGED <<held_object, stack, ret, done, log, calc>>

ConcurrentNext ==
  \E t \in Tasks :
    \/ TaskStart(t)
    \/ TaskResponse(t)
    \/ WorkerStart(t)
    \/ MotionCall(t)
    \/ MotionReturn(t)
    \/ TaskResume(t)
    \/ TaskCancel(t)

(***************************************************************************)
(* Several RobotCommander coroutines on one event loop, sharing one         *)
(* commander.  The loop runs one coroutine at a time, from the point it is  *)
(* scheduled at to its next suspension point or to its end; the steps it    *)
(* takes in between are the steps of the commander above.                   *)
(***************************************************************************)
SuspendsAtGripper(frame) == frame.fn = "pick_up_object" /\ frame.pc = "lift"

\* the coroutine is at an await that hands control back to the loop: the
\* commander awaits nothing but its own coroutines (the sleeps after the
\* gripper calls are commented out), and calls the scene query and the motion
\* primitive directly
Suspends(frame) == FALSE

\* a coroutine the loop has not run yet
NewCoroutine == [pc |-> "new", stack |-> <<>>, ret |-> FALSE, held |-> None, result |-> FALSE]

\* no coroutine has run
NoSlices == [fn |-> "loop", order |-> <<>>]

\* the instructions of the coroutines: a pick, a place, a move to an object and
\* a move of an object to a location
LoopInstructions ==
  { <<"G","r","a","b"," ","t","h","e"," ","C","u","p">>,
    <<"p","u","t"," ","b","o","o","k"," ","o","n"," ","t","a","b","l","e">>,
    <<"m","o","v","e"," ","b","o","o","k">>,
    <<"m","o","v","e"," ","b","o","o","k"," ","t","o"," ","s","h","e","l","f">> }

\* the coroutines the caller creates: a sequence of instructions, or one instruction
Coroutines ==
  {[Frame("execute_command_sequence") EXCEPT !.commands = commands] :
     commands \in ListsUpTo(LoopInstructions, MaxCmds)}
  \cup {[Frame("process_command") EXCEPT !.text = text] : text \in LoopInstructions}

\* the loop, running nothing, runs coroutine t: a new one from its start, a
\* suspended one from the await it was suspended at
LoopRun(t) ==
  /\ Idle
  /\ calc.fn = "loop"
  /\ \A u \in Tasks : tasks[u].pc # "running"
  /\ \/ /\ tasks[t].pc = "new"
        /\ \E coroutine \in Coroutines : stack' = <<coroutine>>
        /\ ret' = FALSE
     \/ /\ tasks[t].pc = "suspended"
        /\ stack' = tasks[t].stack
        /\ ret' = tasks[t].ret
  /\ tasks' = [tasks EXCEPT ![t].pc = "running", ![t].stack = <<>>]
  /\ calc' = [calc EXCEPT !.order =
                Append(@, [task |-> t, events |-> 0, held0 |-> held_object,
                           held1 |-> held_object])]
  /\ UNCHANGED <<held_object, done, log>>

\* the coroutine the loop runs hands control back, at a suspension point or at
\* its end; what it did since it was scheduled is noted in calc.order
LoopYield(t) ==
  /\ tasks[t].pc = "running"
  /\ IF stack = <<>> THEN done # NoDone ELSE Suspends(Top)
  /\ tasks' = [tasks EXCEPT ![t] =
                 IF stack = <<>>
                   THEN [@ EXCEPT !.pc = "ended", !.result = done.result]
                   ELSE [@ EXCEPT !.pc = "suspended", !.stack = stack, !.ret = ret,
                                  !.held = held_object]]
  /\ calc' = [calc EXCEPT !.order[Len(calc.order)].events = Len(log),
                          !.order[Len(calc.order)].held1 = held_object]
  /\ stack' = <<>>
  /\ done' = NoDone
  /\ log' = <<>>
  /\ ret' = FALSE
  /\ UNCHANGED held_object

LoopInit ==
  /\ held_object = None
  /\ stack = <<>>
  /\ ret = FALSE
  /\ done = NoDone
  /\ log = <<>>
  /\ tasks = [t \in Tasks |-> NewCoroutine]
  /\ calc = NoSlices

LoopNext ==
  \/ \E t \in Tasks : LoopRun(t) \/ LoopYield(t)
  \/ execute_command_sequence
  \/ process_command
  \/ move_to_object_find
  \/ move_to_object_approach
  \/ move_to_object_final
  \/ pick_up_object
  \/ pick_up_object_lift
  \/ drop_object
  \/ drop_object_retreat
  \/ move_object_to_location

\* the commander's coroutines of Tasks scheduled together
LoopSpec == LoopInit /\ [][LoopNext]_vars

(***************************************************************************)
(* The frame transform on its own: a point of the robot frame is taken to  *)
(* the camera frame by H and back by _convert_camera_to_robot_frame.        *)
(***************************************************************************)
\* the points lie on a grid of 150 millimetres, MaxGrid steps each way
MaxGrid == 2

GridPoints ==
  LET coordinates == {150 * k : k \in (0 - MaxGrid)..MaxGrid}
  IN  {[x |-> a, y |-> b, z |-> c] : a \in coordinates, b \in coordinates, c \in coordinates}

\* nothing is being evaluated
NoCalc == [fn |-> "none"]

\* the camera-frame image of the point under H
ApplyH ==
  /\ calc.fn = "transform"
  /\ calc.stage = "point"
  /\ calc' = [calc EXCEPT !.stage = "camera", !.camera_pos = H(calc.point)]
  /\ UNCHANGED <<held_object, stack, ret, done, log, tasks>>

\* robot_pos = self._convert_camera_to_robot_frame(camera_pos)
ApplyConvert ==
  /\ calc.fn = "transform"
  /\ calc.stage = "camera"
  /\ calc' = [calc EXCEPT !.stage = "robot",
                          !.robot_pos = _convert_camera_to_robot_frame(calc.camera_pos)]
  /\ UNCHANGED <<held_object, stack, ret, done, log, tasks>>

(***************************************************************************)
(* The instruction parser on its own: the branch process_command takes and *)
(* the two extractions, for instructions made of words of a vocabulary.    *)
(***************************************************************************)
\* most words (or phrases) of an instruction
MaxWords == 3

Vocabulary ==
  { <<"p","i","c","k"," ","u","p">>, <<"G","r","a","b">>, <<"p","u","t">>,
    <<"m","o","v","e">>, <<"r","e","m","o","v","e">>, <<"t","h","e">>,
    book, <<"t","o">>, <<"o","n">>, shelf }

\* the two instructions the parser is documented with
Examples ==
  { << <<"p","i","c","k"," ","u","p">>, <<"t","h","e">>, <<"r","e","d">>,
       <<"c","u","b","e">> >>,
    << <<"m","o","v","e">>, book, <<"t","o">>, shelf >> }

WordLists == (ListsUpTo(Vocabulary, MaxWords) \ {<<>>}) \cup Examples

\* the words written one after another with a space between
RECURSIVE Join(_)
Join(words) ==
  IF Len(words) = 1 THEN words[1]
  ELSE words[1] \o <<" ">> \o Join(Tail(words))

\* process_command parses the instruction: the branch it takes and what the
\* two extractions return for it
Parse ==
  /\ calc.fn = "parse"
  /\ calc.stage = "text"
  /\ calc' = [calc EXCEPT !.stage = "parsed",
                          !.action = Classify(calc.text).action,
                          !.object = _extract_object_name(Lower(calc.text)),
                          !.location = _extract_target_location(Lower(calc.text))]
  /\ UNCHANGED <<held_object, stack, ret, done, log, tasks>>

Init ==
  /\ held_object = None
  /\ stack = <<>>
  /\ ret = FALSE
  /\ done = NoDone
  /\ log = <<>>
  /\ tasks = [t \in Tasks |-> NewTask]
  /\ calc = NoCalc

Next ==
  \/ CallSequence
  \/ CallOperation
  \/ CallerResume
  \/ execute_command_sequence
  \/ process_command
  \/ move_to_object_find
  \/ move_to_object_approach
  \/ move_to_object_final
  \/ pick_up_object
  \/ pick_up_object_lift
  \/ drop_object
  \/ drop_object_retreat
  \/ move_object_to_location
  \/ CallTask
  \/ _get_vla_response
  \/ process_task
  \/ _execute_vla_commands_dispatch
  \/ _execute_vla_commands_record
  \/ _execute_vla_commands_return
  \/ robot_method
  \/ _execute_pick
  \/ _execute_place

Spec == Init /\ [][Next]_vars

\* the coroutines of Tasks running together
ConcurrentSpec == Init /\ [][ConcurrentNext]_vars

TransformInit ==
  /\ held_object = None
  /\ stack = <<>>
  /\ ret = FALSE
  /\ done = NoDone
  /\ log = <<>>
  /\ tasks = [t \in Tasks |-> NewTask]
  /\ calc \in {[fn |-> "transform", stage |-> "point", point |-> p,
                 camera_pos |-> p, robot_pos |-> p] : p \in GridPoints}

TransformNext == ApplyH \/ ApplyConvert

ParserInit ==
  /\ held_object = None
  /\ stack = <<>>
  /\ ret = FALSE
  /\ done = NoDone
  /\ log = <<>>
  /\ tasks = [t \in Tasks |-> NewTask]
  /\ calc \in {[fn |-> "parse", stage |-> "text", words |-> w, text |-> Join(w),
                 action |-> "none", object |-> None, location |-> None] : w \in WordLists}

\* the parser applied to the instructions of the vocabulary
ParserSpec == ParserInit /\ [][Parse]_vars

\* the frame transform applied to the points of the grid
TransformSpec == TransformInit /\ [][TransformNext]_vars

(***************************************************************************)
(* Properties.                                                             *)
(***************************************************************************)
IsMotion(e) == e.kind = "motion"

\* the motion primitive returned a nonzero code
NonZero(e) == e.kind = "motion" /\ ~ e.raised /\ e.code # 0

\* the motion primitive returned 0
Succeeded(e) == e.kind = "motion" /\ ~ e.raised /\ e.code = 0

\* the positions in log of what the finished call d issued
Issued(d) == (d.frame.e0 + 1)..d.at

Within(e, fn) == \E j \in 1..Len(e.ctx) : e.ctx[j] = fn

\* C1: drop_object called while held_object is None returns False, issues no
\* scene query and no motion primitive, and leaves held_object None.
C1_PlaceWhileIdle ==
  (done.frame.fn = "drop_object" /\ done.frame.h0 = None) =>
     /\ done.result = FALSE
     /\ Issued(done) = {}
     /\ done.h1 = None

C1_Witness ==
  /\ done.frame.fn = "drop_object"
  /\ done.frame.h0 = None
  /\ done.result = FALSE

\* process_command has just returned failure to execute_command_sequence
InstructionFailed ==
  /\ Running("execute_command_sequence", "await")
  /\ done.frame.fn = "process_command"
  /\ done.result = FALSE

\* C2: once process_command returns failure for instruction k, the next step of
\* execute_command_sequence is to return False, with nothing issued; and a
\* sequence that returned False at instruction k issued nothing for a later one.
C2_FailFast ==
  /\ [][InstructionFailed =>
          /\ stack' = <<>>
          /\ done'.frame.fn = "execute_command_sequence"
          /\ done'.frame.i = done.frame.i
          /\ done'.result = FALSE
          /\ log' = log]_vars
  /\ []((done.frame.fn = "execute_command_sequence" /\ done.result = FALSE) =>
          \A a \in 1..Len(log) : log[a].instr <= done.frame.i)

C2_Witness ==
  /\ done.frame.fn = "execute_command_sequence"
  /\ done.result = FALSE
  /\ done.frame.i < Len(done.frame.commands)
  /\ log # <<>>
  /\ NonZero(log[Len(log)])

\* the method of the command is called: its type is registered and its
\* parameters bind
Invokable(cmd) ==
  /\ cmd # Malformed
  /\ cmd.type \in DOMAIN task_templates
  /\ Binds(task_templates[cmd.type].method, cmd.parameters)

\* C3: _execute_vla_commands keeps one record per command it went through,
\* whatever failed; the list it returns has one record per command of the plan,
\* the j-th for the j-th command, and every command whose method can be called
\* had it called, the ones after a failed command included.
C3_BatchIsolation ==
  /\ \A j \in 1..Len(stack) :
       stack[j].fn = "_execute_vla_commands" =>
         Len(stack[j].results) = IF stack[j].pc = "await" THEN stack[j].i - 1 ELSE stack[j].i
  /\ (done.frame.fn = "_execute_vla_commands" /\ ~ done.result.raised) =>
       LET plan == done.frame.commands
           records == done.result.value
       IN  /\ Len(records) = Len(plan)
           /\ \A j \in 1..Len(plan) :
                /\ records[j].command = plan[j].type
                /\ Invokable(plan[j]) =>
                     \E a \in Issued(done) : IsMotion(log[a]) /\ log[a].instr = j

C3_Witness ==
  /\ done.frame.fn = "_execute_vla_commands"
  /\ ~ done.result.raised
  /\ Len(done.frame.commands) >= 2
  /\ done.result.value[1].status = "error"
  /\ done.result.value[2].status = "success"
  /\ \E a \in Issued(done) : IsMotion(log[a]) /\ log[a].instr = 2

\* C4: a pick_up_object called while held_object is None that fails on a
\* nonzero motion code returns with held_object still None.
C4_FailedPickStaysIdle ==
  (/\ done.frame.fn = "pick_up_object"
   /\ done.frame.h0 = None
   /\ done.result = FALSE
   /\ Issued(done) # {}
   /\ NonZero(log[done.at])) => done.h1 = None

\* C5: a pick_up_object called while an object is held returns False, issues no
\* motion primitive and leaves held_object as it was.
C5_PickOnlyFromIdle ==
  (done.frame.fn = "pick_up_object" /\ done.frame.h0 # None) =>
     /\ done.result = FALSE
     /\ \A a \in Issued(done) : ~ IsMotion(log[a])
     /\ done.h1 = done.frame.h0

\* C6: a pick_up_object(label) that returns True leaves held_object = label, and
\* a drop_object that returns True leaves held_object None.
C6_SuccessTransitions ==
  /\ (/\ done.frame.fn = "pick_up_object"
      /\ done.result = TRUE
      /\ done.frame.target # None) => done.h1 = done.frame.target
  /\ (done.frame.fn = "drop_object" /\ done.result = TRUE) => done.h1 = None

C6_Witness ==
  /\ done.frame.fn = "drop_object"
  /\ done.result = TRUE
  /\ done.frame.h0 = book
  /\ \E a \in 1..done.frame.e0 :
       log[a].phase = "lift" /\ Succeeded(log[a]) /\ log[a].label = book

\* the successful lifts before position n of log that no later lift or retreat
\* (up to n) follows: the picks whose object is held at n
PickedBefore(n) ==
  {a \in 1..n : /\ log[a].phase = "lift"
                /\ Succeeded(log[a])
                /\ \A b \in (a + 1)..n : log[b].phase \notin {"lift", "retreat"}}

\* C7: a drop_object that returns False after a successful pick leaves
\* held_object the label that was picked, and a move_object_to_location whose
\* pick succeeded and whose place failed returns False still holding its object.
C7_FailedPlaceKeepsHolding ==
  /\ (/\ done.frame.fn = "drop_object"
      /\ done.result = FALSE
      /\ PickedBefore(done.frame.e0) # {}) =>
        \A a \in PickedBefore(done.frame.e0) : done.h1 = log[a].label
  /\ (/\ done.frame.fn = "move_object_to_location"
      /\ \E a \in Issued(done) : log[a].phase = "lift" /\ Succeeded(log[a])
      /\ \E a \in Issued(done) :
           Within(log[a], "drop_object") /\ (log[a].raised \/ NonZero(log[a]))) =>
        (done.result = FALSE /\ done.h1 = done.frame.target)

\* the pick of move_object_to_location has just returned failure
PickOfMoveFailed ==
  /\ Running("move_object_to_location", "await_pick")
  /\ done.frame.fn = "pick_up_object"
  /\ done.result = FALSE

\* C8: move_object_to_location calls pick_up_object first; when that returns
\* False the next step is to return False with nothing issued; and whatever a
\* move_object_to_location issues for the place comes after all it issues for
\* the pick.
C8_MoveObjectPickFirst ==
  /\ [][/\ Running("move_object_to_location", "start") =>
             stack'[Len(stack')].fn = "pick_up_object"
        /\ PickOfMoveFailed =>
             /\ stack' = SubSeq(stack, 1, Len(stack) - 1)
             /\ done'.frame.fn = "move_object_to_location"
             /\ done'.result = FALSE
             /\ log' = log]_vars
  /\ [](\A a \in 1..Len(log) : \A b \in 1..Len(log) :
          (/\ a < b
           /\ log[a].instr = log[b].instr
           /\ Within(log[a], "move_object_to_location")
           /\ Within(log[a], "drop_object")) => ~ Within(log[b], "pick_up_object"))

C8_Witness ==
  /\ done.frame.fn = "move_object_to_location"
  /\ done.result = FALSE
  /\ Issued(done) # {}
  /\ NonZero(log[done.at])
  /\ \A a \in Issued(done) : ~ Within(log[a], "drop_object")

\* what a move_to_object(target, offset) issues, in order, when nothing fails
MoveToObjectPlan(target, offset) ==
  << [kind |-> "query", phase |-> "find", label |-> target, offset |-> 0,
      speed |-> 0, axes |-> {}],
     [kind |-> "motion", phase |-> "approach", label |-> target, offset |-> 0,
      speed |-> default_speed, axes |-> {"x", "y", "z", "roll", "pitch", "yaw"}],
     [kind |-> "motion", phase |-> "final", label |-> target, offset |-> offset,
      speed |-> approach_speed, axes |-> {"x", "y", "z", "roll", "pitch", "yaw"}] >>

Request(e) ==
  [kind |-> e.kind, phase |-> e.phase, label |-> e.label, offset |-> e.offset,
   speed |-> e.speed, axes |-> e.axes]

\* the instruction is a Move without a location
PlainMove(text) ==
  Classify(text).action = "move" /\ Classify(text).location = None

\* C9: a move_to_object returns with held_object as it found it, and what it
\* issued is the plan for its target cut where something failed, whatever is
\* held; so does a Move instruction without a location; and held_object
\* changes only in a step of pick_up_object or drop_object.
C9_MoveToKeepsHeld ==
  /\ []((done.frame.fn = "move_to_object") =>
          /\ done.h1 = done.frame.h0
          /\ \A a \in Issued(done) :
               /\ a - done.frame.e0 <= 3
               /\ Request(log[a]) =
                    MoveToObjectPlan(done.frame.target, done.frame.offset)[a - done.frame.e0]
               /\ a < done.at => (log[a].found \/ Succeeded(log[a])))
  /\ []((done.frame.fn = "process_command" /\ PlainMove(done.frame.text)) =>
          /\ done.h1 = done.frame.h0
          /\ \A a \in Issued(done) : log[a].ctx[Len(log[a].ctx)] = "move_to_object"
                                     /\ ~ Within(log[a], "pick_up_object")
                                     /\ ~ Within(log[a], "drop_object"))
  /\ [][held_object' # held_object =>
          stack # <<>> /\ Top.fn \in {"pick_up_object", "drop_object"}]_vars

C9_Witness ==
  /\ done.frame.fn = "move_to_object"
  /\ done.frame.h0 = book
  /\ done.result = TRUE
  /\ stack # <<>>
  /\ Top.fn = "process_command"

CommanderOperations ==
  {"move_to_object", "pick_up_object", "drop_object", "move_object_to_location"}

\* C10: after a motion primitive returned a nonzero code nothing more is issued
\* for the same operation (the same instruction or command, the same direct
\* call); the commander's operation returns False, and _execute_pick and
\* _execute_place return that code.
C10_AbortOnNonZero ==
  /\ \A a \in 1..Len(log) : \A b \in 1..Len(log) :
       (a < b /\ NonZero(log[a])) => log[b].instr > log[a].instr
  /\ (/\ done.frame.fn \in CommanderOperations
      /\ \E a \in Issued(done) : NonZero(log[a])) => done.result = FALSE
  /\ (/\ done.frame.fn \in {"_execute_pick", "_execute_place"}
      /\ Issued(done) # {}
      /\ NonZero(log[done.at])) => done.result = Returned(log[done.at].code)

C10_Witness ==
  /\ done.frame.fn = "_execute_pick"
  /\ done.at = done.frame.e0 + 2
  /\ NonZero(log[done.at])
  /\ done.result = Returned(9)

\* the finished move_to_object whose scene query found its label
FoundMove ==
  /\ done.frame.fn = "move_to_object"
  /\ Issued(done) # {}
  /\ log[done.frame.e0 + 1].found

\* C11: a move_to_object whose scene query finds the label issues that one
\* query, then a motion to (target.x, target.y, safe_height) and, exactly when
\* that returned 0, a motion to (target.x, target.y, target.z + height_offset),
\* target being the transformed position of the detection (height_offset is 0
\* unless pick or drop asks otherwise); it returns True exactly when both
\* motions returned 0.
C11_MoveToObjectPlan ==
  FoundMove =>
    LET first == done.frame.e0 + 1
        target == _convert_camera_to_robot_frame(log[first].pos)
    IN  /\ \A a \in Issued(done) : log[a].kind = "query" <=> a = first
        /\ done.at >= first + 1
        /\ done.at <= first + 2
        /\ log[first + 1].pos = [x |-> target.x, y |-> target.y, z |-> safe_height]
        /\ done.at = first + 2 <=> Succeeded(log[first + 1])
        /\ done.at = first + 2 =>
             log[first + 2].pos =
               [x |-> target.x, y |-> target.y, z |-> target.z + done.frame.offset]
        /\ done.result = TRUE <=>
             (done.at = first + 2 /\ Succeeded(log[first + 1]) /\ Succeeded(log[first + 2]))

C11_Witness ==
  /\ FoundMove
  /\ done.frame.offset = 0
  /\ done.frame.target = book
  /\ done.result = TRUE
  /\ log[done.at].pos = _convert_camera_to_robot_frame([x |-> 100, y |-> 50, z |-> 300])
  /\ log[done.at].pos.z # safe_height

\* the instruction cannot be parsed: no trigger phrase, or a Pick or Move
\* trigger with no object token
Unparseable(text) ==
  \/ Classify(text).action = "unknown"
  \/ Classify(text).action \in {"pick", "move"} /\ Classify(text).object = None

\* C12: process_command on an unparseable instruction returns False, issues no
\* scene query and no motion primitive, and leaves held_object as it was.
C12_UnparseableFails ==
  (done.frame.fn = "process_command" /\ Unparseable(done.frame.text)) =>
     /\ done.result = FALSE
     /\ Issued(done) = {}
     /\ done.h1 = done.frame.h0

\* the finished call began with a scene query that returned nothing
NothingFound ==
  /\ Issued(done) # {}
  /\ log[done.frame.e0 + 1].kind = "query"
  /\ ~ log[done.frame.e0 + 1].found
  /\ ~ log[done.frame.e0 + 1].raised

\* C13: a move_to_object, pick_up_object or drop_object whose scene query
\* returns nothing returns False, issues no motion primitive and leaves
\* held_object as it was.
C13_ObjectNotFound ==
  (/\ done.frame.fn \in {"move_to_object", "pick_up_object", "drop_object"}
   /\ NothingFound) =>
     /\ done.result = FALSE
     /\ \A a \in Issued(done) : ~ IsMotion(log[a])
     /\ done.h1 = done.frame.h0

C13_Witness ==
  /\ done.frame.fn = "drop_object"
  /\ done.frame.h0 = book
  /\ NothingFound
  /\ done.h1 = book

\* the record lists of plan execution: the one being built by the running
\* _execute_vla_commands and the one the finished one returned, each with its plan
RecordLists ==
  {[plan |-> stack[j].commands, records |-> stack[j].results] :
     j \in {k \in 1..Len(stack) : stack[k].fn = "_execute_vla_commands"}}
  \cup
  (IF done.frame.fn = "_execute_vla_commands" /\ ~ done.result.raised
     THEN {[plan |-> done.frame.commands, records |-> done.result.value]}
     ELSE {})

\* the command is an object whose type is not registered
UnknownType(cmd) == cmd # Malformed /\ cmd.type \notin DOMAIN task_templates

\* C14: the record of a command whose type is not in task_templates has status
\* error and names that type, and nothing was issued for that command.
C14_UnknownCommand ==
  \A l \in RecordLists : \A j \in 1..Len(l.records) :
    UnknownType(l.plan[j]) =>
      /\ l.records[j].status = "error"
      /\ l.records[j].command = l.plan[j].type
      /\ l.records[j].error = "ValueError"
      /\ \A a \in 1..Len(log) : log[a].instr # j

C14_Witness ==
  /\ done.frame.fn = "_execute_vla_commands"
  /\ ~ done.result.raised
  /\ Len(done.frame.commands) = 2
  /\ UnknownType(done.frame.commands[2])
  /\ done.result.value[2].command = "fly"
  /\ done.result.value[1].status = "success"

\* the handler of command j failed: a motion of its returned a nonzero code (the
\* last one it issued, by C10) or raised, or the handler itself raised
HandlerFailed(j) ==
  \E a \in 1..Len(log) : log[a].instr = j /\ (NonZero(log[a]) \/ log[a].raised)

\* C15: the record of a command whose handler failed has status error.
C15_HandlerFailureIsError ==
  \A l \in RecordLists : \A j \in 1..Len(l.records) :
    HandlerFailed(j) => l.records[j].status = "error"

\* the command is of a registered type and its parameters are not exactly the
\* ones the template of the type declares: one is missing, or one is extra
Invalid(cmd) ==
  /\ cmd # Malformed
  /\ cmd.type \in DOMAIN task_templates
  /\ DOMAIN cmd.parameters # task_templates[cmd.type].params

\* C16: the record of a command with a missing or an undeclared parameter has
\* status error and nothing was issued for that command.
C16_ValidationError ==
  /\ \A l \in RecordLists : \A j \in 1..Len(l.records) :
       Invalid(l.plan[j]) => l.records[j].status = "error"
  /\ \A j \in 1..Len(stack) :
       (stack[j].fn = "_execute_vla_commands" /\ stack[j].i >= 1) =>
          (Invalid(stack[j].commands[stack[j].i]) =>
             \A a \in 1..Len(log) : log[a].instr # stack[j].i)

\* the frames that loop over a list of commands
Loops == {"execute_command_sequence", "_execute_vla_commands"}

\* C17: a sequence or a plan goes to its next command, the one after the
\* current, only when it is itself the running coroutine (the operation of the
\* current command has returned); what is issued for a command comes after all
\* that is issued for the commands before it; and the j-th record of a plan
\* holds the type and the parameters of its j-th command.
C17_SubmissionOrder ==
  /\ [][\A j \in 1..Len(stack) :
          (/\ stack[j].fn \in Loops
           /\ j <= Len(stack')
           /\ stack'[j].fn = stack[j].fn
           /\ stack'[j].i # stack[j].i) =>
             /\ j = Len(stack)
             /\ stack'[j].i = stack[j].i + 1]_vars
  /\ [](\A a \in 1..Len(log) : \A b \in 1..Len(log) :
          a < b => log[a].instr <= log[b].instr)
  /\ [](\A l \in RecordLists : \A j \in 1..Len(l.records) :
          /\ l.records[j].command = l.plan[j].type
          /\ l.records[j].parameters = l.plan[j].parameters)

C17_Witness ==
  /\ done.frame.fn = "_execute_vla_commands"
  /\ ~ done.result.raised
  /\ Len(done.result.value) = 2
  /\ done.result.value[1].command = "pick"
  /\ done.result.value[2].command = "home"
  /\ Len(log) = 4
  /\ log[3].instr = 1
  /\ log[4].instr = 2

\* the finished process_command met a condition the error taxonomy names: the
\* instruction is unparseable, a scene query returned nothing, the operation was
\* called in the wrong state (place with nothing held, pick with something
\* held), or a scene query or a motion primitive raised
ErrorCondition ==
  \/ Unparseable(done.frame.text)
  \/ \E a \in Issued(done) : log[a].kind = "query" /\ ~ log[a].found /\ ~ log[a].raised
  \/ Classify(done.frame.text).action = "drop" /\ done.frame.h0 = None
  \/ Classify(done.frame.text).action = "pick" /\ done.frame.h0 # None
  \/ \E a \in Issued(done) : log[a].raised

\* C20: process_command always returns a truth value, and returns False when
\* the instruction is unparseable, an object is not found, the state is wrong
\* for the operation, or a scene query or motion primitive raised.
C20_NeverRaises ==
  done.frame.fn = "process_command" =>
    /\ done.result \in BOOLEAN
    /\ ErrorCondition => done.result = FALSE

\* the tasks with a motion primitive in flight
InFlight == {t \in Tasks : tasks[t].worker.inflight}

\* C18: at most one motion primitive call is in flight at any time, however
\* many plans run together on the one XArmController.
C18_OneMotionInFlight == Cardinality(InFlight) <= 1

\* the choreography of the task's current command has issued a motion
\* primitive and is not over
MidChoreography(t) == tasks[t].worker.state = "running" /\ tasks[t].worker.phase >= 1

\* C19: a task that ended, cancelled or not, is not in the middle of a
\* choreography and has no motion primitive in flight: a cancellation is
\* honoured between two commands only, and the end of the plan is not reported
\* while one of its motion primitives executes.
C19_CancelBetweenCommands ==
  \A t \in Tasks : tasks[t].pc = "ended" => ~ MidChoreography(t) /\ t \notin InFlight

\* the place failed on a motion primitive that returned a nonzero code: the
\* object may still be gripped
PlaceMotionFailed ==
  /\ done.frame.fn = "drop_object"
  /\ Issued(done) # {}
  /\ NonZero(log[done.at])

\* the place was rejected before any motion: nothing is held, or the scene
\* query returned nothing for the location
PlaceRejected ==
  /\ done.frame.fn = "drop_object"
  /\ (done.frame.h0 = None \/ NothingFound)

\* the Place instruction was rejected for its missing location
PlaceWithoutLocation ==
  /\ done.frame.fn = "process_command"
  /\ Classify(done.frame.text).action = "drop"
  /\ Classify(done.frame.text).location = None

\* what a rejected place returns
RejectedResults == {FALSE}

\* C21: a rejected place returns a rejection result, and a place that failed on
\* a nonzero motion code returns something else, which tells its caller that
\* the object may still be gripped.
C21_AmbiguityExposed ==
  /\ (PlaceRejected \/ PlaceWithoutLocation) => done.result \in RejectedResults
  /\ PlaceMotionFailed => done.result \notin RejectedResults

\* _get_vla_response has just raised into process_task
PlannerFailed ==
  /\ Running("process_task", "await_response")
  /\ done.frame.fn = "_get_vla_response"
  /\ ret.raised

\* C22: an answer of the planning service with a status other than 200 is
\* never handed on as a plan: _get_vla_response raises, the next step of
\* process_task is to return an error result, and a process_task that ended
\* there called no handler and issued no motion primitive.
C22_PlannerError ==
  /\ []((done.frame.fn = "_get_vla_response" /\ ~ done.result.raised) =>
          done.result.value.status = 200)
  /\ [][PlannerFailed =>
          /\ stack' = <<>>
          /\ done'.frame.fn = "process_task"
          /\ done'.result.status = "error"
          /\ log' = log]_vars
  /\ []((done.frame.fn = "process_task" /\ done.frame.pc = "await_response") =>
          /\ done.result.status = "error"
          /\ log = <<>>)

C22_Witness ==
  /\ done.frame.fn = "process_task"
  /\ done.frame.pc = "await_response"
  /\ done.result = TaskError("VLA API error")
  /\ stack = <<>>

\* a and b differ by a millimetre at most, the rounding of the arithmetic
Near(a, b) == a - b \in {-1, 0, 1}

\* C23: _convert_camera_to_robot_frame applied to the image of a point under H
\* gives the point back, within the rounding.
C23_RoundTrip ==
  (calc.fn = "transform" /\ calc.stage = "robot") =>
     /\ Near(calc.robot_pos.x, calc.point.x)
     /\ Near(calc.robot_pos.y, calc.point.y)
     /\ Near(calc.robot_pos.z, calc.point.z)

C23_Witness ==
  /\ calc.fn = "transform"
  /\ calc.stage = "robot"
  /\ calc.point = [x |-> 300, y |-> -150, z |-> 150]
  /\ calc.camera_pos # calc.point
  /\ Near(calc.robot_pos.x, 300)

\* the words of a text: what lies between its spaces
RECURSIVE Split(_)
Split(s) ==
  IF s = <<>> THEN <<>>
  ELSE LET spaces == {i \in 1..Len(s) : s[i] = " "}
           n == IF spaces = {} THEN Len(s) + 1
                ELSE CHOOSE i \in spaces : \A j \in spaces : i <= j
       IN  <<SubSeq(s, 1, n - 1)>> \o Split(SubSeq(s, n + 1, Len(s)))

\* the words of the parsed instruction, in lower case
Tokens == Split(Lower(calc.text))

Article == <<"t","h","e">>

\* the word after word k, an article before a further word skipped; None at the end
Follows(k) ==
  IF k + 2 <= Len(Tokens) /\ Tokens[k + 1] = Article THEN Tokens[k + 2]
  ELSE IF k + 1 <= Len(Tokens) THEN Tokens[k + 1]
  ELSE None

\* the positions where the phrase (a sequence of words) ends in the instruction
Ends(phrase) ==
  {k \in 1..Len(Tokens) :
     /\ k >= Len(phrase)
     /\ \A j \in 1..Len(phrase) : Tokens[k - Len(phrase) + j] = phrase[j]}

\* the words that follow an occurrence of the phrase
After(phrase) == {Follows(k) : k \in Ends(phrase)} \ {None}

\* the word following the leftmost occurrence of the phrase that a word follows
FirstAfter(phrase) ==
  LET ends == {k \in Ends(phrase) : Follows(k) # None}
  IN  IF ends = {} THEN None
      ELSE Follows(CHOOSE k \in ends : \A j \in ends : k <= j)

\* the trigger phrases of each action, as words
Triggers ==
  [pick |-> {<<SubSeq(PickUp, 1, 4), SubSeq(PickUp, 6, 7)>>, <<Grab>>},
   drop |-> {<<Drop>>, <<Put>>},
   move |-> {<<Move>>}]

\* a trigger phrase of the action occurs in the instruction as whole words
Triggered(action) == \E phrase \in Triggers[action] : Ends(phrase) # {}

\* the action by whole-word matching in priority order
TokenAction ==
  IF Triggered("pick") THEN "pick"
  ELSE IF Triggered("drop") THEN "drop"
  ELSE IF Triggered("move") THEN "move"
  ELSE "unknown"

\* the words that follow a trigger phrase of the action
ObjectCandidates(action) == UNION {After(phrase) : phrase \in Triggers[action]}

\* C24: for an instruction classified by a trigger phrase it holds as whole
\* words, the extracted object is a word that follows a trigger phrase of its
\* action (an article skipped), and None when no word follows one.
C24_ObjectFollowsTrigger ==
  (/\ calc.fn = "parse"
   /\ calc.stage = "parsed"
   /\ calc.action # "unknown"
   /\ calc.action = TokenAction) =>
     IF ObjectCandidates(calc.action) = {}
       THEN calc.object = None
       ELSE calc.object \in ObjectCandidates(calc.action)

ToWord == <<"t","o">>
InWord == <<"i","n">>
OnWord == <<"o","n">>

\* the location by the words: the word after "to" if one follows a "to",
\* else the word after "in", else the word after "on", else None
TokenLocation ==
  IF FirstAfter(<<ToWord>>) # None THEN FirstAfter(<<ToWord>>)
  ELSE IF FirstAfter(<<InWord>>) # None THEN FirstAfter(<<InWord>>)
  ELSE FirstAfter(<<OnWord>>)

\* C25: the extracted location is the word following the first of "to", "in",
\* "on", in that order, that occurs with a word after it (an article skipped),
\* wherever in the text the others occur, and None when none does.
C25_LocationByListOrder ==
  (calc.fn = "parse" /\ calc.stage = "parsed") => calc.location = TokenLocation

C25_Witness ==
  /\ calc.fn = "parse"
  /\ calc.stage = "parsed"
  /\ calc.words = <<OnWord, ToWord, book>>
  /\ calc.location = book

\* C26: the action is the one whole-word matching in priority order gives.
C26_WholeWordClassification ==
  (calc.fn = "parse" /\ calc.stage = "parsed") => calc.action = TokenAction

\* the motion primitives the operation that just returned has issued
IssuedMotions ==
  SelectSeq(SubSeq(log, done.frame.e0 + 1, done.at), LAMBDA e : e.kind = "motion")

AllReturnedZero(motions) ==
  \A k \in 1..Len(motions) : ~ motions[k].raised /\ motions[k].code = 0

\* the manipulator-frame target of the pick or place that just returned
ChoreographyTarget ==
  IF done.frame.fn = "pick_up_object"
    THEN _convert_camera_to_robot_frame(Scene(done.frame.target))
  ELSE IF done.frame.fn = "drop_object"
    THEN _convert_camera_to_robot_frame(Scene(done.frame.location))
  ELSE [x |-> done.frame.params.x, y |-> done.frame.params.y, z |-> done.frame.params.z]

\* C27: a pick or place (pick_up_object, drop_object, _execute_pick,
\* _execute_place) that has issued motions, all of which returned 0, has issued
\* exactly three, one after the other: above the target at the safe height, at
\* the target, and up to the safe height again.
C27_ThreeMotions ==
  (/\ done.frame.fn \in {"pick_up_object", "drop_object", "_execute_pick", "_execute_place"}
   /\ IssuedMotions # <<>>
   /\ AllReturnedZero(IssuedMotions))
  => /\ Len(IssuedMotions) = 3
     /\ IssuedMotions[1].pos = [x |-> ChoreographyTarget.x, y |-> ChoreographyTarget.y,
                                z |-> safe_height]
     /\ IssuedMotions[2].pos = ChoreographyTarget
     /\ IssuedMotions[3].pos.z = safe_height
     /\ "x" \in DOMAIN IssuedMotions[3].pos => IssuedMotions[3].pos.x = ChoreographyTarget.x
     /\ "y" \in DOMAIN IssuedMotions[3].pos => IssuedMotions[3].pos.y = ChoreographyTarget.y

\* C28: process_command of a Place instruction ("drop", "put") in which no
\* location is found returns False, has issued no scene query and no motion
\* primitive, and leaves held_object as it was, held or not.
C28_PlaceNeedsLocation ==
  PlaceWithoutLocation =>
    /\ done.result = FALSE
    /\ Issued(done) = {}
    /\ done.h1 = done.frame.h0
    /\ held_object = done.frame.h0

\* "drop book" was given while an object was held, and has returned
C28_Witness ==
  /\ PlaceWithoutLocation
  /\ done.frame.text = <<"d","r","o","p"," ","b","o","o","k">>
  /\ done.frame.h0 # None
  /\ done.result = FALSE

\* C29: whatever is raised while one command of a plan is dispatched ends in an
\* error record of that command: _execute_vla_commands never raises, and what it
\* returns holds one record for every command of the plan, the records of the
\* commands before the failing one included.
C29_ExceptionsConfined ==
  done.frame.fn = "_execute_vla_commands" =>
    /\ ~ done.result.raised
    /\ Len(done.result.value) = Len(done.frame.commands)

\* process_task returns to its caller in this step
TaskReturns == stack # <<>> /\ Top.fn = "process_task" /\ stack' = <<>>

\* C30: process_task returns status "success", with the records of the batch,
\* whenever the planner returned a plan and the batch returned, whatever the
\* status of its records; it returns status "error" only when obtaining the plan
\* raised or an exception left the batch.
C30_TopLevelStatus ==
  [][TaskReturns =>
       /\ done'.result.status \in {"success", "error"}
       /\ done'.result.status = "error" <=> ret.raised
       /\ done'.result.status = "success" <=>
            (Top.pc = "await" /\ done.frame.fn = "_execute_vla_commands" /\ ~ ret.raised)
       /\ done'.result.status = "success" => done'.result.execution_results = ret.value]_vars

\* process_task has returned "success" for a plan whose records are all errors
C30_Witness ==
  /\ done.frame.fn = "process_task"
  /\ done.result.status = "success"
  /\ done.result.execution_results # <<>>
  /\ \A k \in 1..Len(done.result.execution_results) :
       done.result.execution_results[k].status = "error"

\* C31: of the commander's coroutines scheduled on one loop, one runs from its
\* start to its end before another takes a step: no coroutine is ever suspended,
\* the loop runs each of them exactly once, and every coroutine that ran before
\* the one running now has ended, so that the motion primitives and the reads
\* and writes of held_object of two coroutines never interleave.
C31_RunToCompletion ==
  calc.fn = "loop" =>
    /\ \A t \in Tasks : tasks[t].pc # "suspended"
    /\ \A i, k \in 1..Len(calc.order) : calc.order[i].task = calc.order[k].task => i = k
    /\ \A i \in 1..(Len(calc.order) - 1) : tasks[calc.order[i].task].pc = "ended"

\* two coroutines have run, the first picked an object up and the second, run
\* after it, put it down
C31_Witness ==
  /\ calc.fn = "loop"
  /\ Len(calc.order) = 2
  /\ \A t \in Tasks : tasks[t].pc = "ended"
  /\ calc.order[1].events > 0 /\ calc.order[2].events > 0
  /\ calc.order[1].held0 = None /\ calc.order[1].held1 # None
  /\ calc.order[2].held0 # None /\ calc.order[2].held1 = None

\* how many events of a kind the call that just returned has issued
IssuedOf(kind) ==
  Len(SelectSeq(SubSeq(log, done.frame.e0 + 1, done.at), LAMBDA e : e.kind = kind))

\* C32: execute_command_sequence over n instructions has returned after at most
\* 2n scene queries and 6n motion primitives, and _execute_vla_commands over n
\* commands has returned its list of records after at most 3n motion primitives.
C32_BoundedTermination ==
  /\ done.frame.fn = "execute_command_sequence" =>
       /\ IssuedOf("query") <= 2 * Len(done.frame.commands)
       /\ IssuedOf("motion") <= 6 * Len(done.frame.commands)
  /\ done.frame.fn = "_execute_vla_commands" =>
       /\ ~ done.result.raised
       /\ IssuedOf("motion") <= 3 * Len(done.frame.commands)

====
